---------------------------- MODULE Spec2Model ----------------------------
(***************************************************************************)
(* Model of chromium-jumpstart: the provisioning orchestrator of           *)
(* jumpstart/init.py (main, fetch_chromium_source, perform_git_clone and   *)
(* its pty read callback, apply_build_flags) and the configuration store   *)
(* of jumpstart/config.py.                                                 *)
(*                                                                         *)
(* Three specifications share the variables:                               *)
(*   Spec       - runs of main() against one source path, the file system  *)
(*                persisting from one run to the next;                     *)
(*   SpecFlags  - apply_build_flags applied to every build section;        *)
(*   SpecConfig - sequences of generate_config / validate_config /         *)
(*                write_config_file / load_config calls inside one         *)
(*                process.                                                 *)
(***************************************************************************)
EXTENDS Integers, Sequences, FiniteSets, TLC

(***************************************************************************)
(* Bounds of the model.                                                    *)
(***************************************************************************)
MaxRuns == 2          \* runs of main() against the same source path
MaxRetries == 2       \* nested delete-and-retry calls of fetch_chromium_source
                      \* the interpreter allows before it raises RecursionError
MaxChunks == 3        \* output chunks read from one clone child

(***************************************************************************)
(* Program constants.                                                      *)
(***************************************************************************)
STALL_TIMEOUT == 120

\* Seconds the clone child stays silent before an output chunk.
Gaps == {10, 100, 121}

\* Exit codes of the clone child (git exits 128 on a fatal error).
ExitCodes == {0, 128}

ProjectNames == {"", "app"}
TreeStates == {"absent", "partial", "full"}

VARIABLES
    \* ---- file system, kept from one run to the next
    tree,             \* chromium_src_dir: "absent", "partial" (directory
                      \* without the expected top-level entry) or "full"
    bad_scm,          \* chromium_src_dir/_bad_scm exists
    marker,           \* chromium_src_dir/.jumpstart_installed exists
    depot_tools,      \* ~/depot_tools exists
    projects,         \* project name -> [exists, file], file = <<>> or
                      \* <<the JSON text of chromium_project_config.json>>
    build_dirs,       \* names n with chromium_src_dir/out/n
    \* ---- one process (one run of main)
    runs,             \* number of runs started
    pc,               \* position of the process
    stack,            \* return points of the active fetch_chromium_source calls
    args,             \* parsed arguments: depot_fetch, name, config
    success,          \* the local `success` of fetch_chromium_source
    exit_status,      \* exit status of the process once pc = "exited"
    ran,              \* steps executed in this run, and what happened in
                      \* it: "clone_unclean", "command_failed",
                      \* "retry_refused", "corruption_refused",
                      \* "RecursionError", "fault" (an uncaught KeyError or
                      \* TypeError of the configuration code)
    sync_count,       \* gclient sync commands started in this run
    gn_args,          \* <<>> or <<the --args string handed to gn gen>>
    \* ---- module state of jumpstart.config and main's local `config`
    DEFAULT_CONFIG,   \* the module-level dictionary (its nested dictionaries)
    config,           \* [shared, doc]: shared = the nested dictionaries are
                      \* DEFAULT_CONFIG's own objects
    written,          \* project name -> <<>> or <<the dictionary last handed
                      \* to write_config for that project directory>>
    \* ---- the pty read callback of perform_git_clone
    clock,            \* time.time(), relative to the call of read
    last_output_time,
    chunks,           \* chunks read in this call of read
    max_gap,          \* longest silence of the child while it was being read
    saw_fatal,        \* a chunk contained "fatal"
    verdict,          \* what read reported: "Idle" (not called), "Running",
                      \* "Stalled" or "FatalError"
    child_code,       \* <<>> or <<exit code of the last clone child>>
    \* ---- what has happened to the tree now on disk
    prov,             \* [acquired, synced, deps]
    start_state,      \* [tree, marker] at the start of this run
    \* ---- apply_build_flags on its own
    build,            \* the build section given to apply_build_flags
    build_flags       \* <<>> or <<the token sequence it produced>>

fs_vars == <<tree, bad_scm, marker, depot_tools, projects, build_dirs>>
proc_vars == <<runs, pc, stack, args, success, exit_status, ran, sync_count, gn_args>>
cfg_vars == <<DEFAULT_CONFIG, config, written>>
mon_vars == <<clock, last_output_time, chunks, max_gap, saw_fatal, verdict, child_code>>
hist_vars == <<prov, start_state>>
flag_vars == <<build, build_flags>>
vars == <<fs_vars, proc_vars, cfg_vars, mon_vars, hist_vars, flag_vars>>


(***************************************************************************)
(* jumpstart/config.py                                                     *)
(***************************************************************************)
\* Python's None for custom_build_flags is <<>>, a string s is <<s>>.
None == <<>>

\* The literal of DEFAULT_CONFIG.
DefaultDocument ==
    [metadata |-> [name |-> "",
                   version |-> "0.1",
                   description |-> "Custom Chromium build configuration",
                   base_chromium_version |-> "latest",
                   init |-> [project_dir |-> "", chromium_src |-> "",
                             depot_tools |-> FALSE]],
     paths |-> [chromium_src |-> ""],
     features |-> [security |-> [sandboxing |-> TRUE, site_isolation |-> TRUE],
                   performance |-> [gpu_acceleration |-> TRUE],
                   privacy |-> [tracking_protection |-> TRUE,
                                ad_blocking |-> TRUE]],
     build |-> [optimization_level |-> "O2",
                disable_google_update_check |-> TRUE,
                is_debug |-> FALSE,
                use_jumbo_build |-> TRUE,
                thin_lto |-> TRUE,
                custom_build_flags |-> None]]

\* A dictionary whose nested dictionaries are DEFAULT_CONFIG's own objects,
\* and one that owns its nested dictionaries.
SharedConfig == [shared |-> TRUE, doc |-> DefaultDocument]
OwnConfig(d) == [shared |-> FALSE, doc |-> d]

\* The value a configuration handle denotes, given the module dictionary.
Deref(c, dflt) == IF c.shared THEN dflt ELSE c.doc

\* generate_config: DEFAULT_CONFIG.copy() is a shallow copy, a new top-level
\* dictionary over the same nested dictionaries.
generate_config == SharedConfig

\* Documents a --config file may hold.
SeedDocument ==
    [metadata |-> [name |-> "seed", version |-> "0.2"],
     paths |-> [chromium_src |-> "/old"],
     build |-> [optimization_level |-> "O0",
                disable_google_update_check |-> FALSE,
                is_debug |-> TRUE,
                use_jumbo_build |-> FALSE,
                thin_lto |-> FALSE,
                custom_build_flags |-> <<"foo=bar">>]]
NoPathsDocument == [metadata |-> [name |-> "seed", version |-> "0.2"]]
NoBuildDocument ==
    [metadata |-> [name |-> "seed", version |-> "0.2"],
     paths |-> [chromium_src |-> "/old"]]
NoThinLtoDocument ==
    [metadata |-> [version |-> "0.2"],
     paths |-> [chromium_src |-> "/old"],
     build |-> [optimization_level |-> "O2",
                disable_google_update_check |-> TRUE,
                is_debug |-> FALSE,
                use_jumbo_build |-> TRUE,
                custom_build_flags |-> None]]

\* A Python str where a dictionary is expected is the record [py_str |-> s];
\* every other record is a dict.
StrObject(s) == [py_str |-> s]
IsDict(v) == "py_str" \notin DOMAIN v
StrMetadataDocument ==
    [metadata |-> StrObject("seed"),
     paths |-> [chromium_src |-> "/old"],
     build |-> SeedDocument.build]

\* The empty dict.
EmptyMapping == [k \in {} |-> TRUE]

ConfigPaths ==
    {"missing.json", "broken.json", "nopaths.json", "seed.json",
     "nobuild.json", "nothinlto.json", "strmetadata.json"}

\* What open() and json.load() give for each path.
ConfigFile(path) ==
    CASE path = "missing.json" -> [kind |-> "unreadable", doc |-> <<>>]
      [] path = "broken.json"  -> [kind |-> "malformed", doc |-> <<>>]
      [] path = "nopaths.json" -> [kind |-> "json", doc |-> NoPathsDocument]
      [] path = "seed.json"    -> [kind |-> "json", doc |-> SeedDocument]
      [] path = "nobuild.json" -> [kind |-> "json", doc |-> NoBuildDocument]
      [] path = "nothinlto.json" ->
             [kind |-> "json", doc |-> NoThinLtoDocument]
      [] path = "strmetadata.json" ->
             [kind |-> "json", doc |-> StrMetadataDocument]

\* validate_config with the test on "paths" left out.
validate_configMetadataOnly(path) ==
    LET f == ConfigFile(path) IN
    IF f.kind # "json"
    THEN generate_config
    ELSE IF "metadata" \notin DOMAIN f.doc
         THEN generate_config
         ELSE OwnConfig(f.doc)

\* validate_config
validate_config(path) ==
    LET f == ConfigFile(path) IN
    IF f.kind # "json"
    THEN generate_config
    ELSE IF "metadata" \notin DOMAIN f.doc \/ "paths" \notin DOMAIN f.doc
         THEN generate_config
         ELSE OwnConfig(f.doc)

\* d[k] is there and is a dict: d[k][x] = v raises neither KeyError nor
\* TypeError.
HasDict(d, k) == k \in DOMAIN d /\ IsDict(d[k])

\* m[k] = v on a dict.
DictSet(m, k, v) == [x \in DOMAIN m \cup {k} |-> IF x = k THEN v ELSE m[x]]

\* write_config_file raises at one of its two assignments.
WriteConfigFaults(d) == ~(HasDict(d, "metadata") /\ HasDict(d, "paths"))

\* write_config_file's two assignments on a document, as far as they
\* execute.
SetNameAndSource(d, project_name, chromium_src_dir) ==
    LET d1 == IF HasDict(d, "metadata")
              THEN [d EXCEPT !.metadata = DictSet(@, "name", project_name)]
              ELSE d
    IN IF WriteConfigFaults(d) THEN d1
       ELSE [d1 EXCEPT !.paths = DictSet(@, "chromium_src", chromium_src_dir)]

\* json.dump and json.load.  A JSON text is a tree of tokens: <<"object",
\* members>>, <<"string", s>>, <<"true">>, <<"false">>, <<"null">>.  The
\* Python type of a value is told from its key: the documents above hold
\* one type under each key.
RootKey == "root"
DictKeys ==
    {RootKey, "metadata", "init", "paths", "features", "security",
     "performance", "privacy", "build"}
BoolKeys ==
    {"depot_tools", "sandboxing", "site_isolation", "gpu_acceleration",
     "tracking_protection", "ad_blocking", "disable_google_update_check",
     "is_debug", "use_jumbo_build", "thin_lto"}
NullableKeys == {"custom_build_flags"}

RECURSIVE JsonDump(_, _)
JsonDump(key, v) ==
    IF key \in DictKeys
    THEN IF IsDict(v)
         THEN <<"object", [k \in DOMAIN v |-> JsonDump(k, v[k])]>>
         ELSE <<"string", v.py_str>>
    ELSE IF key \in BoolKeys
    THEN (IF v THEN <<"true">> ELSE <<"false">>)
    ELSE IF key \in NullableKeys
    THEN (IF v = None THEN <<"null">> ELSE <<"string", v[1]>>)
    ELSE <<"string", v>>

RECURSIVE JsonLoad(_, _)
JsonLoad(key, tok) ==
    CASE tok[1] = "object" ->
             [k \in DOMAIN tok[2] |-> JsonLoad(k, tok[2][k])]
      [] tok[1] = "true"   -> TRUE
      [] tok[1] = "false"  -> FALSE
      [] tok[1] = "null"   -> None
      [] tok[1] = "string" ->
             IF key \in DictKeys THEN StrObject(tok[2])
             ELSE IF key \in NullableKeys THEN <<tok[2]>>
             ELSE tok[2]

\* write_config that keeps a file that is already there.
write_configKeepExisting(file, d) ==
    IF file = <<>> THEN <<JsonDump(RootKey, d)>> ELSE file

\* write_config: open(config_path, "w") and json.dump; `file` is what the
\* project directory held.
write_config(file, d) == <<JsonDump(RootKey, d)>>

\* load_config: the parsed file, or {} when there is none.
load_config(file) ==
    IF file = <<>> THEN EmptyMapping ELSE JsonLoad(RootKey, file[1])

(***************************************************************************)
(* apply_build_flags                                                       *)
(***************************************************************************)
\* str() of a Python bool, as the f-string of is_optimized formats it.
PyStr(b) == IF b THEN "True" ELSE "False"

\* Truth value of custom_build_flags (None or a string).
TruthyStr(s) == s # None /\ s[1] # ""

\* build_flags with thin_lto emitted as thin_lto=false when it is unset.
BuildFlagsThinLtoFalse(b) ==
    (IF b.optimization_level # ""
     THEN <<"is_optimized=" \o PyStr(b.optimization_level # "O0")>>
     ELSE <<>>)
    \o (IF b.is_debug THEN <<"is_debug=true">> ELSE <<"is_debug=false">>)
    \o (IF b.use_jumbo_build THEN <<"use_jumbo_build=true">> ELSE <<>>)
    \o (IF b.thin_lto THEN <<"thin_lto=true">> ELSE <<"thin_lto=false">>)
    \o (IF b.disable_google_update_check
        THEN <<"disable_google_update_check=true">> ELSE <<>>)
    \o (IF TruthyStr(b.custom_build_flags)
        THEN <<b.custom_build_flags[1]>> ELSE <<>>)

\* The list build_flags of apply_build_flags.
BuildFlags(b) ==
    (IF b.optimization_level # ""
     THEN <<"is_optimized=" \o PyStr(b.optimization_level # "O0")>>
     ELSE <<>>)
    \o (IF b.is_debug THEN <<"is_debug=true">> ELSE <<"is_debug=false">>)
    \o (IF b.use_jumbo_build THEN <<"use_jumbo_build=true">> ELSE <<>>)
    \o (IF b.thin_lto THEN <<"thin_lto=true">> ELSE <<>>)
    \o (IF b.disable_google_update_check
        THEN <<"disable_google_update_check=true">> ELSE <<>>)
    \o (IF TruthyStr(b.custom_build_flags)
        THEN <<b.custom_build_flags[1]>> ELSE <<>>)

\* apply_build_flags raises KeyError (or TypeError) at config["build"] or
\* at one of the six keys it reads.
BuildKeys ==
    {"optimization_level", "disable_google_update_check", "is_debug",
     "use_jumbo_build", "thin_lto", "custom_build_flags"}
BuildFaults(d) ==
    ~HasDict(d, "build") \/ ~(BuildKeys \subseteq DOMAIN d.build)

\* " ".join(build_flags)
RECURSIVE Join(_)
Join(toks) ==
    IF toks = <<>> THEN ""
    ELSE IF Len(toks) = 1 THEN toks[1]
    ELSE toks[1] \o " " \o Join(Tail(toks))

OptimizationLevels == {"", "O0", "O1", "O2", "O3"}
CustomFlags == {None, <<"">>, <<"foo=bar">>}
BuildSections ==
    [optimization_level : OptimizationLevels,
     disable_google_update_check : BOOLEAN,
     is_debug : BOOLEAN,
     use_jumbo_build : BOOLEAN,
     thin_lto : BOOLEAN,
     custom_build_flags : CustomFlags]

(***************************************************************************)
(* jumpstart/init.py: helpers                                              *)
(***************************************************************************)
\* The path main() is given as chromium_src_dir.
ChromiumSrcDir == "/src"
\* Source directories write_config_file is called with on its own.
SourceDirs == {"/src", "/alt"}

NoProvenance == [acquired |-> FALSE, synced |-> FALSE, deps |-> FALSE]

\* Truth value of a Python int (False is the int 0).
Truthy(v) == v # 0

\* The status os.waitpid reports for a child that exited with `code` (a
\* child killed by a signal gives another non-zero status).
WaitStatus(code) == code * 256

\* The marker test with `and` in place of `or`.
NeedsProvisioningAnd(dir_exists, marker_exists) ==
    ~dir_exists /\ ~marker_exists

\* The marker test with its `not` dropped.
NeedsProvisioningDroppedNot(dir_exists, marker_exists) ==
    ~dir_exists \/ marker_exists

\* main's test on the source directory and the marker file.
NeedsProvisioning(dir_exists, marker_exists) ==
    ~dir_exists \/ ~marker_exists

\* last_output_time left at the time read was called.
LastOutputTimeNotUpdated(old, now) == old

\* `last_output_time = time.time()` after a chunk was read.
LastOutputTime(old, now) == now

\* The stall test of the read callback.
StallDetected(now, last) == now - last > STALL_TIMEOUT

\* Answers typed at the two prompts, and str.lower() on them.
Responses == {"", "Y", "yes", "n"}
Lower(response) == IF response = "Y" THEN "y" ELSE response

\* The answers that refuse.
Refusals == {"n"}

\* Every answer taken as consent to delete and retry.
AcceptsRetryAlways(response) == TRUE

\* `response.lower() in ["", "y", "yes"]` at the failure prompt.
AcceptsRetry(response) == Lower(response) \in {"", "y", "yes"}

\* `confirm == 'y'` at the corruption prompt, confirm = response.lower().
ConfirmsRetry(response) == Lower(response) = "y"

\* Nested calls of fetch_chromium_source (the frame called from main not
\* counted) at which the next call raises RecursionError.
RecursionLimit == MaxRetries + 1

\* Where a call of fetch_chromium_source returns to.
ReturnPc(frame) ==
    CASE frame = "main"    -> "install_os_dependencies"
      [] frame = "fail"    -> "bad_scm_check"
      [] frame = "corrupt" -> "gclient_sync"

\* What a clone child can leave behind: exit code, tree, _bad_scm.
ChildResults ==
    {r \in [code : ExitCodes, tree : TreeStates, bad : BOOLEAN] :
        /\ (r.tree = "absent" => ~r.bad)
        /\ (r.code = 0 => r.tree # "absent")}

Max(a, b) == IF a >= b THEN a ELSE b

\* exit(code), or an uncaught exception (the interpreter exits with 1).
Exit(code) ==
    /\ pc' = "exited"
    /\ exit_status' = code
    /\ stack' = <<>>

\* rm -rf chromium_src_dir
RemoveTree ==
    /\ tree' = "absent"
    /\ bad_scm' = FALSE
    /\ marker' = FALSE
    /\ build_dirs' = {}
    /\ prov' = NoProvenance

(***************************************************************************)
(* main(): argument parsing, configuration, the marker test                *)
(***************************************************************************)
ArgSets ==
    [depot_fetch : BOOLEAN,
     name : ProjectNames,
     config : {None} \cup {<<p>> : p \in ConfigPaths}]

StartRun(a) ==
    /\ pc \in {"idle", "exited"}
    /\ runs < MaxRuns
    /\ runs' = runs + 1
    /\ args' = a
    /\ DEFAULT_CONFIG' = DefaultDocument
    /\ config' = IF a.config # None THEN validate_config(a.config[1])
                 ELSE generate_config
    /\ pc' = "check_marker"
    /\ stack' = <<>>
    /\ success' = 0
    /\ exit_status' = 0
    /\ ran' = {}
    /\ sync_count' = 0
    /\ gn_args' = <<>>
    /\ clock' = 0 /\ last_output_time' = 0 /\ chunks' = 0 /\ max_gap' = 0
    /\ saw_fatal' = FALSE /\ verdict' = "Idle" /\ child_code' = <<>>
    /\ start_state' = [tree |-> tree, marker |-> marker]
    /\ UNCHANGED <<fs_vars, prov, written, flag_vars>>

CheckMarker ==
    /\ pc = "check_marker"
    /\ pc' = IF NeedsProvisioning(tree # "absent", marker)
             THEN "setup_depot_tools" ELSE "create_project_directory"
    /\ UNCHANGED <<fs_vars, runs, stack, args, success, exit_status, ran,
                   sync_count, gn_args, cfg_vars, mon_vars, hist_vars, flag_vars>>

\* setup_depot_tools: clone depot_tools if missing, then `which fetch`.
SetupDepotTools(clone_ok, which_ok) ==
    /\ pc = "setup_depot_tools"
    /\ ran' = ran \cup {"setup_depot_tools"}
                  \cup (IF (~depot_tools /\ ~clone_ok) \/ ~which_ok
                        THEN {"command_failed"} ELSE {})
    /\ IF ~depot_tools /\ ~clone_ok
       THEN Exit(1) /\ UNCHANGED depot_tools
       ELSE /\ depot_tools' = TRUE
            /\ IF which_ok
               THEN pc' = "run_git_config" /\ UNCHANGED <<stack, exit_status>>
               ELSE Exit(1)
    /\ UNCHANGED <<tree, bad_scm, marker, projects, build_dirs, runs, args,
                   success, sync_count, gn_args, cfg_vars, mon_vars,
                   hist_vars, flag_vars>>

\* run_git_config, then the call of fetch_chromium_source from main.
RunGitConfig(ok) ==
    /\ pc = "run_git_config"
    /\ ran' = ran \cup {"run_git_config"}
                  \cup (IF ok THEN {} ELSE {"command_failed"})
    /\ IF ok
       THEN pc' = "fetch_chromium_source" /\ stack' = <<"main">>
            /\ UNCHANGED exit_status
       ELSE Exit(1)
    /\ UNCHANGED <<fs_vars, runs, args, success, sync_count, gn_args,
                   cfg_vars, mon_vars, hist_vars, flag_vars>>

(***************************************************************************)
(* fetch_chromium_source                                                   *)
(***************************************************************************)
\* Entry: return if the directory exists, else pick the fetch method;
\* perform_depot_fetch returns False.
FetchEntry ==
    /\ pc = "fetch_chromium_source"
    /\ ran' = ran \cup {"fetch_chromium_source"}
    /\ IF tree # "absent"
       THEN /\ pc' = ReturnPc(stack[Len(stack)])
            /\ stack' = SubSeq(stack, 1, Len(stack) - 1)
            /\ UNCHANGED success
       ELSE IF args.depot_fetch
            THEN pc' = "check_success" /\ success' = 0 /\ UNCHANGED stack
            ELSE pc' = "perform_git_clone" /\ UNCHANGED <<stack, success>>
    /\ UNCHANGED <<fs_vars, runs, args, exit_status, sync_count, gn_args,
                   cfg_vars, mon_vars, hist_vars, flag_vars>>

\* perform_git_clone: pty.spawn starts the child, or raises and False is
\* returned.
CloneSpawn(raises) ==
    /\ pc = "perform_git_clone"
    /\ ran' = ran \cup {"perform_git_clone"}
                  \cup (IF raises THEN {"clone_unclean"} ELSE {})
    /\ IF raises
       THEN pc' = "check_success" /\ success' = 0 /\ verdict' = "Idle"
       ELSE pc' = "read" /\ UNCHANGED success /\ verdict' = "Running"
    /\ clock' = 0 /\ last_output_time' = 0 /\ chunks' = 0 /\ max_gap' = 0
    /\ saw_fatal' = FALSE /\ child_code' = <<>>
    /\ UNCHANGED <<fs_vars, runs, stack, args, exit_status, sync_count,
                   gn_args, cfg_vars, hist_vars, flag_vars>>

\* One iteration of the loop of read: os.read returns a chunk after the
\* child was silent for `gap` seconds (the first chunk is there when read
\* is called).
ReadChunk(gap, fatal) ==
    /\ pc = "read"
    /\ chunks < MaxChunks
    /\ gap \in (IF chunks = 0 THEN {0} ELSE Gaps)
    /\ chunks' = chunks + 1
    /\ clock' = clock + gap
    /\ max_gap' = Max(max_gap, gap)
    /\ last_output_time' = LastOutputTime(last_output_time, clock')
    /\ IF fatal
       THEN saw_fatal' = TRUE /\ verdict' = "FatalError" /\ pc' = "waitpid"
       ELSE /\ UNCHANGED saw_fatal
            /\ IF StallDetected(clock', last_output_time')
               THEN verdict' = "Stalled" /\ pc' = "waitpid"
               ELSE UNCHANGED <<verdict, pc>>
    /\ UNCHANGED <<fs_vars, runs, stack, args, success, exit_status, ran,
                   sync_count, gn_args, cfg_vars, child_code, hist_vars,
                   flag_vars>>

\* os.read returns b"" or raises OSError: read returns b"".
ReadEOF ==
    /\ pc = "read"
    /\ pc' = "waitpid"
    /\ UNCHANGED <<fs_vars, runs, stack, args, success, exit_status, ran,
                   sync_count, gn_args, cfg_vars, mon_vars, hist_vars,
                   flag_vars>>

\* pty.spawn closes the master and returns os.waitpid(pid, 0)[1].
WaitPid(r) ==
    /\ pc = "waitpid"
    /\ success' = WaitStatus(r.code)
    /\ child_code' = <<r.code>>
    /\ tree' = r.tree
    /\ bad_scm' = r.bad
    /\ prov' = [NoProvenance EXCEPT !.acquired = (r.code = 0)]
    /\ pc' = "check_success"
    /\ ran' = ran \cup (IF r.code # 0 \/ saw_fatal \/ r.bad
                        THEN {"clone_unclean"} ELSE {})
    /\ UNCHANGED <<marker, depot_tools, projects, build_dirs, runs, stack,
                   args, exit_status, sync_count, gn_args, cfg_vars,
                   clock, last_output_time, chunks, max_gap, saw_fatal,
                   verdict, start_state, flag_vars>>

\* `if not success:`
CheckSuccess ==
    /\ pc = "check_success"
    /\ pc' = IF ~Truthy(success) THEN "fail_prompt" ELSE "bad_scm_check"
    /\ UNCHANGED <<fs_vars, runs, stack, args, success, exit_status, ran,
                   sync_count, gn_args, cfg_vars, mon_vars, hist_vars,
                   flag_vars>>

\* The failure prompt: delete and call fetch_chromium_source again, or exit.
\* `ran` keeps what the user answered and which commands ran; past the
\* recursion limit the interpreter raises RecursionError instead.
FailPrompt(response, rm_ok) ==
    LET answer == IF Lower(response) \in Refusals
                  THEN {"retry_refused"} ELSE {} IN
    /\ pc = "fail_prompt"
    /\ IF ~AcceptsRetry(response)
       THEN /\ Exit(1)
            /\ ran' = ran \cup answer
            /\ UNCHANGED <<tree, bad_scm, marker, build_dirs, prov>>
       ELSE IF Len(stack) >= RecursionLimit
       THEN /\ Exit(1)
            /\ ran' = ran \cup answer \cup {"RecursionError"}
            /\ UNCHANGED <<tree, bad_scm, marker, build_dirs, prov>>
       ELSE IF rm_ok
       THEN /\ RemoveTree
            /\ ran' = ran \cup answer \cup {"rm"}
            /\ stack' = Append(stack, "fail")
            /\ pc' = "fetch_chromium_source"
            /\ UNCHANGED exit_status
       ELSE /\ Exit(1)
            /\ ran' = ran \cup answer \cup {"rm", "command_failed"}
            /\ UNCHANGED <<tree, bad_scm, marker, build_dirs, prov>>
    /\ UNCHANGED <<depot_tools, projects, runs, args, success, sync_count,
                   gn_args, cfg_vars, mon_vars, start_state, flag_vars>>

\* The corruption check and its prompt.
BadScmCheck(response, rm_ok) ==
    /\ pc = "bad_scm_check"
    /\ IF ~(tree # "absent" /\ bad_scm)
       THEN /\ pc' = "gclient_sync"
            /\ ran' = ran \cup {"bad_scm_check"}
            /\ UNCHANGED <<tree, bad_scm, marker, build_dirs, prov, stack,
                           exit_status>>
       ELSE IF ~ConfirmsRetry(response)
       THEN /\ Exit(1)
            /\ ran' = ran \cup {"bad_scm_check", "corruption_refused"}
            /\ UNCHANGED <<tree, bad_scm, marker, build_dirs, prov>>
       ELSE IF Len(stack) >= RecursionLimit
       THEN /\ Exit(1)
            /\ ran' = ran \cup {"bad_scm_check", "RecursionError"}
            /\ UNCHANGED <<tree, bad_scm, marker, build_dirs, prov>>
       ELSE IF rm_ok
       THEN /\ RemoveTree
            /\ ran' = ran \cup {"bad_scm_check", "rm"}
            /\ stack' = Append(stack, "corrupt")
            /\ pc' = "fetch_chromium_source"
            /\ UNCHANGED exit_status
       ELSE /\ Exit(1)
            /\ ran' = ran \cup {"bad_scm_check", "rm", "command_failed"}
            /\ UNCHANGED <<tree, bad_scm, marker, build_dirs, prov>>
    /\ UNCHANGED <<depot_tools, projects, runs, args, success, sync_count,
                   gn_args, cfg_vars, mon_vars, start_state, flag_vars>>

\* run_command("gclient sync ...", cwd=chromium_src_dir), then return.
GclientSync(ok) ==
    /\ pc = "gclient_sync"
    /\ ran' = ran \cup {"gclient_sync"}
                  \cup (IF tree # "absent" /\ ok THEN {}
                        ELSE {"command_failed"})
    /\ sync_count' = sync_count + 1
    /\ IF tree # "absent" /\ ok
       THEN /\ pc' = ReturnPc(stack[Len(stack)])
            /\ stack' = SubSeq(stack, 1, Len(stack) - 1)
            /\ prov' = [prov EXCEPT !.synced = TRUE]
            /\ UNCHANGED exit_status
       ELSE Exit(1) /\ UNCHANGED prov
    /\ UNCHANGED <<fs_vars, runs, args, success, gn_args, cfg_vars,
                   mon_vars, start_state, flag_vars>>

(***************************************************************************)
(* main(): OS dependencies, the marker, project scaffolding                *)
(***************************************************************************)
\* install_os_dependencies: brew install, then install-build-deps.sh, both
\* with cwd=chromium_src_dir.
InstallOsDependencies(brew_ok, deps_ok) ==
    /\ pc = "install_os_dependencies"
    /\ ran' = ran \cup {"install_os_dependencies"}
                  \cup (IF tree # "absent" /\ brew_ok /\ deps_ok THEN {}
                        ELSE {"command_failed"})
    /\ IF tree # "absent" /\ brew_ok /\ deps_ok
       THEN /\ pc' = "write_marker"
            /\ prov' = [prov EXCEPT !.deps = TRUE]
            /\ UNCHANGED <<stack, exit_status>>
       ELSE Exit(1) /\ UNCHANGED prov
    /\ UNCHANGED <<fs_vars, runs, args, success, sync_count, gn_args,
                   cfg_vars, mon_vars, start_state, flag_vars>>

\* open(marker_file, "w").write("installed")
WriteMarker ==
    /\ pc = "write_marker"
    /\ ran' = ran \cup {"write_marker"}
    /\ IF tree # "absent"
       THEN marker' = TRUE /\ pc' = "create_project_directory"
            /\ UNCHANGED <<stack, exit_status>>
       ELSE Exit(1) /\ UNCHANGED marker
    /\ UNCHANGED <<tree, bad_scm, depot_tools, projects, build_dirs, runs,
                   args, success, sync_count, gn_args, cfg_vars, mon_vars,
                   hist_vars, flag_vars>>

\* create_project_directory; on None main() ends, with exit status 0.
CreateProjectDirectory ==
    /\ pc = "create_project_directory"
    /\ ran' = ran \cup {"create_project_directory"}
    /\ IF projects[args.name].exists
       THEN Exit(0) /\ UNCHANGED projects
       ELSE /\ projects' = [projects EXCEPT ![args.name].exists = TRUE]
            /\ pc' = "write_config_file"
            /\ UNCHANGED <<stack, exit_status>>
    /\ UNCHANGED <<tree, bad_scm, marker, depot_tools, build_dirs, runs, args,
                   success, sync_count, gn_args, cfg_vars, mon_vars,
                   hist_vars, flag_vars>>

\* write_config_file: two assignments through the nested dictionaries of
\* `config`, then write_config into the project directory.
write_config_file(project_name, chromium_src_dir) ==
    LET d0 == Deref(config, DEFAULT_CONFIG)
        d == SetNameAndSource(d0, project_name, chromium_src_dir) IN
    /\ IF config.shared
       THEN DEFAULT_CONFIG' = d /\ UNCHANGED config
       ELSE config' = OwnConfig(d) /\ UNCHANGED DEFAULT_CONFIG
    /\ IF WriteConfigFaults(d0)
       THEN UNCHANGED <<projects, written>>
       ELSE /\ projects' = [projects EXCEPT ![project_name].file =
                                write_config(@, d)]
            /\ written' = [written EXCEPT ![project_name] = <<d>>]

\* The call of write_config_file in main(); an exception it raises ends
\* the process.
WriteConfigFile ==
    /\ pc = "write_config_file"
    /\ write_config_file(args.name, ChromiumSrcDir)
    /\ IF WriteConfigFaults(Deref(config, DEFAULT_CONFIG))
       THEN Exit(1) /\ ran' = ran \cup {"write_config_file", "fault"}
       ELSE /\ pc' = "setup_build_directory"
            /\ ran' = ran \cup {"write_config_file"}
            /\ UNCHANGED <<stack, exit_status>>
    /\ UNCHANGED <<tree, bad_scm, marker, depot_tools, build_dirs, runs,
                   args, success, sync_count, gn_args, mon_vars, hist_vars,
                   flag_vars>>

\* setup_build_directory: os.makedirs(chromium_src_dir/out/<name>,
\* exist_ok=True), then load_config(project_path).
SetupBuildDirectory ==
    /\ pc = "setup_build_directory"
    /\ ran' = ran \cup {"setup_build_directory"}
    /\ build_dirs' = build_dirs \cup {args.name}
    /\ tree' = IF tree = "absent" THEN "partial" ELSE tree
    /\ config' = OwnConfig(load_config(projects[args.name].file))
    /\ pc' = "apply_build_flags"
    /\ UNCHANGED <<bad_scm, marker, depot_tools, projects, runs, stack, args,
                   success, exit_status, sync_count, gn_args, DEFAULT_CONFIG,
                   written, mon_vars, hist_vars, flag_vars>>

\* apply_build_flags: the flags, then gn gen through run_command; a
\* KeyError raised while the flags are read ends the process before gn gen.
ApplyBuildFlags(ok) ==
    /\ pc = "apply_build_flags"
    /\ IF BuildFaults(Deref(config, DEFAULT_CONFIG))
       THEN /\ ran' = ran \cup {"apply_build_flags", "fault"}
            /\ UNCHANGED gn_args
            /\ Exit(1)
       ELSE /\ ran' = ran \cup {"apply_build_flags"}
                          \cup (IF tree # "absent" /\ ok THEN {}
                                ELSE {"command_failed"})
            /\ gn_args' =
                   <<Join(BuildFlags(Deref(config, DEFAULT_CONFIG).build))>>
            /\ Exit(IF tree # "absent" /\ ok THEN 0 ELSE 1)
    /\ UNCHANGED <<fs_vars, runs, args, success, sync_count, cfg_vars,
                   mon_vars, hist_vars, flag_vars>>

(***************************************************************************)
(* The specification of main()                                             *)
(***************************************************************************)
Init ==
    /\ tree = "absent" /\ bad_scm = FALSE /\ marker = FALSE
    /\ depot_tools \in BOOLEAN
    /\ projects = [n \in ProjectNames |-> [exists |-> (n = ""), file |-> <<>>]]
    /\ build_dirs = {}
    /\ runs = 0 /\ pc = "idle" /\ stack = <<>>
    /\ args = [depot_fetch |-> FALSE, name |-> "", config |-> None]
    /\ success = 0 /\ exit_status = 0 /\ ran = {} /\ sync_count = 0
    /\ gn_args = <<>>
    /\ DEFAULT_CONFIG = DefaultDocument
    /\ config = generate_config
    /\ written = [n \in ProjectNames |-> <<>>]
    /\ clock = 0 /\ last_output_time = 0 /\ chunks = 0 /\ max_gap = 0
    /\ saw_fatal = FALSE /\ verdict = "Idle" /\ child_code = <<>>
    /\ prov = NoProvenance
    /\ start_state = [tree |-> "absent", marker |-> FALSE]
    /\ build = DefaultDocument.build
    /\ build_flags = <<>>

Next ==
    \/ \E a \in ArgSets : StartRun(a)
    \/ CheckMarker
    \/ \E c, w \in BOOLEAN : SetupDepotTools(c, w)
    \/ \E ok \in BOOLEAN : RunGitConfig(ok)
    \/ FetchEntry
    \/ \E raises \in BOOLEAN : CloneSpawn(raises)
    \/ \E gap \in Gaps \cup {0}, fatal \in BOOLEAN : ReadChunk(gap, fatal)
    \/ ReadEOF
    \/ \E r \in ChildResults : WaitPid(r)
    \/ CheckSuccess
    \/ \E response \in Responses, rm_ok \in BOOLEAN :
           FailPrompt(response, rm_ok)
    \/ \E response \in Responses, rm_ok \in BOOLEAN :
           BadScmCheck(response, rm_ok)
    \/ \E ok \in BOOLEAN : GclientSync(ok)
    \/ \E b, d \in BOOLEAN : InstallOsDependencies(b, d)
    \/ WriteMarker
    \/ CreateProjectDirectory
    \/ WriteConfigFile
    \/ SetupBuildDirectory
    \/ \E ok \in BOOLEAN : ApplyBuildFlags(ok)

Spec == Init /\ [][Next]_vars

(***************************************************************************)
(* apply_build_flags on every build section                                *)
(***************************************************************************)
InitFlags ==
    /\ tree = "full" /\ bad_scm = FALSE /\ marker = TRUE
    /\ depot_tools = TRUE
    /\ projects = [n \in ProjectNames |-> [exists |-> TRUE, file |-> <<>>]]
    /\ build_dirs = {}
    /\ runs = 1 /\ pc = "flags_input" /\ stack = <<>>
    /\ args = [depot_fetch |-> FALSE, name |-> "app", config |-> None]
    /\ success = 0 /\ exit_status = 0 /\ ran = {} /\ sync_count = 0
    /\ gn_args = <<>>
    /\ DEFAULT_CONFIG = DefaultDocument
    /\ config = generate_config
    /\ written = [n \in ProjectNames |-> <<>>]
    /\ clock = 0 /\ last_output_time = 0 /\ chunks = 0 /\ max_gap = 0
    /\ saw_fatal = FALSE /\ verdict = "Idle" /\ child_code = <<>>
    /\ prov = NoProvenance
    /\ start_state = [tree |-> "full", marker |-> TRUE]
    /\ build \in BuildSections
    /\ build_flags = <<>>

\* apply_build_flags(config, chromium_src_dir) up to the join.
FlagsApply ==
    /\ pc = "flags_input"
    /\ build_flags' = <<BuildFlags(build)>>
    /\ gn_args' = <<Join(BuildFlags(build))>>
    /\ pc' = "flags_done"
    /\ UNCHANGED <<fs_vars, runs, stack, args, success, exit_status, ran,
                   sync_count, cfg_vars, mon_vars, hist_vars, build>>

\* The next build section.
FlagsInput(b) ==
    /\ pc = "flags_done"
    /\ build' = b
    /\ build_flags' = <<>>
    /\ gn_args' = <<>>
    /\ pc' = "flags_input"
    /\ UNCHANGED <<fs_vars, runs, stack, args, success, exit_status, ran,
                   sync_count, cfg_vars, mon_vars, hist_vars>>

NextFlags ==
    \/ FlagsApply
    \/ \E b \in BuildSections : FlagsInput(b)

SpecFlags == InitFlags /\ [][NextFlags]_vars

(***************************************************************************)
(* The configuration store inside one process                              *)
(***************************************************************************)
InitConfig ==
    /\ tree = "full" /\ bad_scm = FALSE /\ marker = TRUE
    /\ depot_tools = TRUE
    /\ projects = [n \in ProjectNames |-> [exists |-> TRUE, file |-> <<>>]]
    /\ build_dirs = {}
    /\ runs = 1 /\ pc = "cfg_import" /\ stack = <<>>
    /\ args = [depot_fetch |-> FALSE, name |-> "app", config |-> None]
    /\ success = 0 /\ exit_status = 0 /\ ran = {} /\ sync_count = 0
    /\ gn_args = <<>>
    /\ DEFAULT_CONFIG = DefaultDocument
    /\ config = generate_config
    /\ written = [n \in ProjectNames |-> <<>>]
    /\ clock = 0 /\ last_output_time = 0 /\ chunks = 0 /\ max_gap = 0
    /\ saw_fatal = FALSE /\ verdict = "Idle" /\ child_code = <<>>
    /\ prov = NoProvenance
    /\ start_state = [tree |-> "full", marker |-> TRUE]
    /\ build = DefaultDocument.build
    /\ build_flags = <<>>

\* Positions after a call that produced a configuration; after
\* "cfg_fault" the caller has caught the exception of write_config_file.
CfgPcs == {"cfg_generate", "cfg_validate", "cfg_write", "cfg_load", "cfg_fault"}

\* config = generate_config()
CfgGenerate ==
    /\ pc \in CfgPcs \cup {"cfg_import"}
    /\ config' = generate_config
    /\ pc' = "cfg_generate"
    /\ UNCHANGED <<fs_vars, runs, stack, args, success, exit_status, ran,
                   sync_count, gn_args, DEFAULT_CONFIG, written, mon_vars,
                   hist_vars, flag_vars>>

\* config = validate_config(path)
CfgValidate(path) ==
    /\ pc \in CfgPcs \cup {"cfg_import"}
    /\ config' = validate_config(path)
    /\ args' = [args EXCEPT !.config = <<path>>]
    /\ pc' = "cfg_validate"
    /\ UNCHANGED <<fs_vars, runs, stack, success, exit_status, ran,
                   sync_count, gn_args, DEFAULT_CONFIG, written, mon_vars,
                   hist_vars, flag_vars>>

\* write_config_file(project_path, project_name, chromium_src_dir, config)
CfgWriteConfigFile(project_name, chromium_src_dir) ==
    /\ pc \in CfgPcs
    /\ write_config_file(project_name, chromium_src_dir)
    /\ pc' = IF WriteConfigFaults(Deref(config, DEFAULT_CONFIG))
             THEN "cfg_fault" ELSE "cfg_write"
    /\ UNCHANGED <<tree, bad_scm, marker, depot_tools, build_dirs, runs,
                   stack, args, success, exit_status, ran, sync_count,
                   gn_args, mon_vars, hist_vars, flag_vars>>

\* config = load_config(project_path)
CfgLoad(project_name) ==
    /\ pc \in CfgPcs \cup {"cfg_import"}
    /\ config' = OwnConfig(load_config(projects[project_name].file))
    /\ args' = [args EXCEPT !.name = project_name]
    /\ pc' = "cfg_load"
    /\ UNCHANGED <<fs_vars, runs, stack, success, exit_status, ran,
                   sync_count, gn_args, DEFAULT_CONFIG, written, mon_vars,
                   hist_vars, flag_vars>>

NextConfig ==
    \/ CfgGenerate
    \/ \E path \in ConfigPaths : CfgValidate(path)
    \/ \E n \in ProjectNames, d \in SourceDirs : CfgWriteConfigFile(n, d)
    \/ \E n \in ProjectNames : CfgLoad(n)

SpecConfig == InitConfig /\ [][NextConfig]_vars

(***************************************************************************)
(* Properties                                                              *)
(***************************************************************************)
AcquisitionSteps ==
    {"setup_depot_tools", "run_git_config", "fetch_chromium_source",
     "perform_git_clone", "bad_scm_check", "gclient_sync", "rm",
     "install_os_dependencies", "write_marker"}

ScaffoldingPcs ==
    {"check_marker", "create_project_directory", "write_config_file",
     "setup_build_directory", "apply_build_flags", "exited"}

\* C1: the provisioning marker exists only if the tree now on disk was
\* acquired by a clone that succeeded, gclient sync succeeded on it and the
\* OS dependencies were installed, in this run or an earlier one.
C1_MarkerOnlyAfterFullProvisioning ==
    marker => (prov.acquired /\ prov.synced /\ prov.deps)

\* C2: a run that starts without the marker and writes it has executed the
\* clone through the monitor, the corruption check and gclient sync first,
\* also when the source directory already existed.
C2_MarkerAbsentForcesAcquisition ==
    (~start_state.marker /\ "write_marker" \in ran)
        => {"perform_git_clone", "bad_scm_check", "gclient_sync"} \subseteq ran

\* C3: a run that starts with the source directory and the marker present
\* executes none of setup_depot_tools, run_git_config,
\* fetch_chromium_source, install_os_dependencies or the marker write, and
\* goes from the marker test directly to project scaffolding.
C3_SecondRunSkipsAcquisition ==
    (pc # "idle" /\ start_state.tree # "absent" /\ start_state.marker)
        => (ran \cap AcquisitionSteps = {} /\ pc \in ScaffoldingPcs)

\* C3 witness: a second run that found the directory and the marker has
\* created its project directory.
C3_Witness ==
    /\ runs = 2
    /\ start_state.tree # "absent" /\ start_state.marker
    /\ pc = "write_config_file"

\* C4: fetch_chromium_source treats the clone as successful if and only if
\* the child exited with status 0 and no fatal marker was seen.
C4_SuccessIffZeroExitAndNoFatal ==
    (pc = "check_success" /\ child_code # <<>>)
        => (Truthy(success) <=> (child_code[1] = 0 /\ ~saw_fatal))

\* C5: once a chunk containing "fatal" was read, perform_git_clone reports
\* failure to fetch_chromium_source, whatever the child's exit status.
C5_FatalChunkReportsFailure ==
    (pc = "check_success" /\ saw_fatal) => ~Truthy(success)

\* C6: when the child was silent for longer than STALL_TIMEOUT while it was
\* being read (and no fatal marker was seen), the monitor has reported
\* Stalled by the time it stops reading, before the child is waited for.
C6_SilenceReportsStalled ==
    (pc = "waitpid" /\ max_gap > STALL_TIMEOUT /\ ~saw_fatal)
        => verdict = "Stalled"

\* C7: the monitor never reports Stalled for a clone whose successive
\* chunks are all separated by less than STALL_TIMEOUT.
C7_NoStallWhileOutputFlows ==
    max_gap < STALL_TIMEOUT => verdict # "Stalled"

\* C7 witness: three chunks, each less than STALL_TIMEOUT after the one
\* before, over more than STALL_TIMEOUT in all, and no stall reported.
C7_Witness ==
    /\ pc = "waitpid"
    /\ chunks = 3 /\ max_gap > 0 /\ max_gap < STALL_TIMEOUT
    /\ clock > STALL_TIMEOUT
    /\ verdict = "Running"

\* C8: gclient sync has completed only on an acquired tree whose expected
\* top-level entry exists on disk, whatever exit status the clone reported.
C8_SyncOnlyOnVerifiedTree ==
    prov.synced => tree = "full"

\* The token sequence the Build Flag Translator is specified to produce.
LowerStr(b) == IF b THEN "true" ELSE "false"
SpecifiedFlags(b) ==
    <<"is_optimized=" \o LowerStr(b.optimization_level # "O0"),
      "is_debug=" \o LowerStr(b.is_debug)>>
    \o (IF b.use_jumbo_build THEN <<"use_jumbo_build=true">> ELSE <<>>)
    \o (IF b.thin_lto THEN <<"thin_lto=true">> ELSE <<>>)
    \o (IF b.disable_google_update_check
        THEN <<"disable_google_update_check=true">> ELSE <<>>)
    \o (IF b.custom_build_flags # None /\ b.custom_build_flags[1] # ""
        THEN <<b.custom_build_flags[1]>> ELSE <<>>)

\* C9: for every build section with optimization_level in O0..O3,
\* apply_build_flags produces exactly the specified token sequence, with
\* lowercase true/false.
C9_FlagsAsSpecified ==
    (pc = "flags_done" /\ build.optimization_level \in {"O0", "O1", "O2", "O3"})
        => build_flags[1] = SpecifiedFlags(build)

\* C10: whatever generate_config, validate_config and write_config_file
\* calls came before, generate_config returns a configuration deep-equal
\* to the canonical default.
C10_GenerateReturnsDefault ==
    pc = "cfg_generate" => Deref(config, DEFAULT_CONFIG) = DefaultDocument

\* C11: validate_config returns one of two values and never a merge: the
\* value generate_config returns when the file is unreadable, malformed or
\* lacks "metadata" or "paths", and otherwise the parsed document, field
\* for field.
C11_ValidateReturnsDefaultOrParsed ==
    pc = "cfg_validate" =>
        LET f == ConfigFile(args.config[1]) IN
        IF f.kind = "json" /\ {"metadata", "paths"} \subseteq DOMAIN f.doc
        THEN ~config.shared /\ config.doc = f.doc
        ELSE Deref(config, DEFAULT_CONFIG)
                 = Deref(generate_config, DEFAULT_CONFIG)

\* C11 witness: a document without "paths" was validated and the result is
\* the generated configuration; a document without "build" comes back as
\* parsed.
C11_Witness ==
    /\ pc = "cfg_validate"
    /\ \/ args.config = <<"nopaths.json">> /\ config.shared
       \/ args.config = <<"nobuild.json">> /\ config.doc = NoBuildDocument

\* C12: load_config on a project directory returns a document deep-equal to
\* the one last handed to write_config for that directory, also when the
\* directory already held a configuration file, and the empty mapping when
\* nothing was written there.
C12_WriteThenLoadRoundTrip ==
    pc = "cfg_load" =>
        /\ ~config.shared
        /\ config.doc = (IF written[args.name] = <<>> THEN EmptyMapping
                         ELSE written[args.name][1])

\* C12 witness: the project directory "app" first received the generated
\* configuration, then a validated document overwrote it, and load_config
\* returned the latter.
C12_Witness ==
    /\ pc = "cfg_load" /\ args.name = "app"
    /\ written["app"] # <<>>
    /\ DEFAULT_CONFIG.metadata.name = "app"
    /\ config.doc.metadata.version = "0.2"
    /\ config.doc.paths.chromium_src = "/alt"

\* C13: no run ends with an exception raised by write_config_file or
\* apply_build_flags, whatever document --config names.
C13_ConfigErrorsNeverFatal ==
    "fault" \notin ran

\* C14: a run ends with exit status 0 only when it went all the way through
\* gn gen: a failed command, an empty project name, an existing project
\* directory or a refused corruption recovery ends it non-zero.
C14_ExitZeroOnlyOnFullSuccess ==
    (pc = "exited" /\ exit_status = 0) => gn_args # <<>>

\* C15: neither the marker write nor a completed gclient sync ever leaves a
\* tree that still holds _bad_scm.
C15_NoMarkerOrSyncOnCorruptTree ==
    (marker \/ prov.synced) => ~(tree # "absent" /\ bad_scm)

\* C16: the step on which the user refuses the delete-and-retry prompt of a
\* failed fetch ends the process with status 1 and changes nothing on disk:
\* no rm -rf, no sync, no dependency install, no marker write; and nothing
\* of the run follows it.
C16_RefusalLeavesTreeUntouched ==
    [][("retry_refused" \in ran')
         => /\ "retry_refused" \notin ran
            /\ pc = "fail_prompt" /\ pc' = "exited" /\ exit_status' = 1
            /\ ran' = ran \cup {"retry_refused"}
            /\ UNCHANGED <<fs_vars, sync_count, prov>>]_vars

\* C16 witness: the user refused after a failed clone that left a partial
\* tree, and the process has exited with the tree still there.
C16_Witness ==
    /\ pc = "exited" /\ exit_status = 1
    /\ "retry_refused" \in ran
    /\ tree = "partial" /\ ~marker /\ sync_count = 0

\* Position of a token in a sequence, 0 when it is not there.
Pos(toks, x) ==
    IF \E i \in 1..Len(toks) : toks[i] = x
    THEN CHOOSE i \in 1..Len(toks) : toks[i] = x /\ \A j \in 1..(i - 1) : toks[j] # x
    ELSE 0
Count(toks, x) == Cardinality({i \in 1..Len(toks) : toks[i] = x})

\* The optional boolean flags, in the order they are to be emitted.
OptionalFlags ==
    <<"use_jumbo_build", "thin_lto", "disable_google_update_check">>

\* C17: in the sequence apply_build_flags produces, each of use_jumbo_build,
\* thin_lto and disable_google_update_check appears (once, as =true)
\* exactly when it is set and never as =false, in that relative order,
\* after the is_debug token; a non-empty custom_build_flags is the last
\* token.
C17_OptionalFlagsPresenceAndOrder ==
    pc = "flags_done" =>
        LET t == build_flags[1]
            d == Pos(t, "is_debug=true") + Pos(t, "is_debug=false")
        IN /\ \A i \in 1..Len(OptionalFlags) :
                  /\ Count(t, OptionalFlags[i] \o "=true")
                         = (IF build[OptionalFlags[i]] THEN 1 ELSE 0)
                  /\ Count(t, OptionalFlags[i] \o "=false") = 0
                  /\ build[OptionalFlags[i]]
                         => d < Pos(t, OptionalFlags[i] \o "=true")
           /\ \A i, j \in 1..Len(OptionalFlags) :
                  (i < j /\ build[OptionalFlags[i]] /\ build[OptionalFlags[j]])
                      => Pos(t, OptionalFlags[i] \o "=true")
                             < Pos(t, OptionalFlags[j] \o "=true")
           /\ Count(t, "is_debug=true") + Count(t, "is_debug=false") = 1
           /\ TruthyStr(build.custom_build_flags)
                  => t[Len(t)] = build.custom_build_flags[1]

\* C17 witness: a section with thin_lto and disable_google_update_check
\* set, use_jumbo_build unset and custom flags has been translated.
C17_Witness ==
    /\ pc = "flags_done"
    /\ ~build.use_jumbo_build /\ build.thin_lto
    /\ build.disable_google_update_check
    /\ build.custom_build_flags = <<"foo=bar">>
    /\ Len(build_flags[1]) = 5

\* C18: within one run of main(), gclient sync is started at most once,
\* whatever the number of delete-and-retry rounds.
C18_SyncAtMostOnce ==
    sync_count <= 1

\* C19: gn gen has been handed its arguments only when the provisioning
\* marker exists and this run has written the project's configuration file
\* into a project directory it created.
C19_GnGenOnlyAfterMarkerAndConfig ==
    gn_args # <<>> =>
        /\ marker
        /\ "write_config_file" \in ran /\ "fault" \notin ran
        /\ projects[args.name].exists
        /\ projects[args.name].file # <<>>
        /\ written[args.name] # <<>>

\* C19 witness: a run has gone through gn gen and ended with status 0.
C19_Witness ==
    /\ pc = "exited" /\ exit_status = 0
    /\ gn_args # <<>>
    /\ marker /\ projects[args.name].file # <<>>

\* C20: a run that started without the source directory, used the direct
\* clone, saw only clones that exited with status 0 without fatal output or
\* corruption marker, was answered yes at every prompt and had no command
\* fail, has written the provisioning marker by the time it ends.
C20_CleanClonesReachMarker ==
    (/\ pc = "exited"
     /\ start_state.tree = "absent" /\ ~args.depot_fetch
     /\ "perform_git_clone" \in ran
     /\ ran \cap {"clone_unclean", "retry_refused", "corruption_refused",
                  "command_failed"} = {})
        => marker

=============================================================================
